---- MODULE Spec2Model ----
(***************************************************************************)
(* A model of src/index.ts: the Elasticsearch MCP server.                  *)
(*                                                                         *)
(*   createElasticsearchMcpServer  validates the configuration, probes the *)
(*     inference endpoint and registers three tools (SpecStartup);         *)
(*   get_properties_template_params, geocode_location and search_template  *)
(*     are the three tool handlers a built server serves (Spec).           *)
(*                                                                         *)
(* Texts.  A JavaScript string whose characters the code inspects (a       *)
(* location, a distance, a home_price, a template source) is a sequence of *)
(* one-character strings.  A text the code only builds from a template     *)
(* literal is a sequence of pieces: each literal piece of the template is  *)
(* one element, each interpolated value is spliced in as it is.            *)
(***************************************************************************)
EXTENDS Integers, Sequences, FiniteSets, TLC

VARIABLES
    \* ---- server construction (createElasticsearchMcpServer, main)
    config,          \* the configuration object handed to the constructor
    clientOptions,   \* the options the Elasticsearch client is made with
    bootPc,          \* "start" | "probing" | "built" | "serving" | "failed"
    probeRequests,   \* requests issued against the inference endpoint
    isReady,         \* whether waitForInferenceEndpoint returned, and the boolean it returned
    probeThrew,      \* an exception left waitForInferenceEndpoint
    tools,           \* names registered with server.tool
    \* ---- one tool invocation at a time (the handlers share no mutable state)
    googleMapsApiKey,\* captured by the geocode_location closure
    pc,              \* "idle" | "tpl_fetch" | "geo_primary" | "geo_texas" | "geo_comma" |
                     \* "search_exec" | "returned"
    call,            \* the invocation being served or last served
    requests,        \* the external requests this invocation issued, in order
    responses,       \* the responses it received, in order
    result,          \* the value the handler returned (NoResult while it runs)
    escaped          \* an exception left a handler (raised past the tool boundary)

vars == <<config, clientOptions, bootPc, probeRequests, isReady, probeThrew, tools,
          googleMapsApiKey, pc, call, requests, responses, result, escaped>>

(***************************************************************************)
(* Bounds of the model.                                                    *)
(***************************************************************************)
MaxLocTokens == 4     \* a location is at most this many tokens long
MaxDistTokens == 3    \* a distance string is at most this many tokens long
MaxPriceLen == 3      \* a home_price string is at most this many characters long
MaxSourceTokens == 3  \* a template source is at most this many tokens long
MaxHits == 2          \* the backend returns at most this many hits

(***************************************************************************)
(* JavaScript strings as sequences of characters.                          *)
(***************************************************************************)
RECURSIVE Flatten(_)
Flatten(ss) == IF ss = <<>> THEN <<>> ELSE Head(ss) \o Flatten(Tail(ss))

\* The sequences over S of length at most n.
SeqsUpTo(S, n) == UNION {[1..k -> S] : k \in 0..n}

\* String.prototype.startsWith at a position: pat occurs in s at index i (1-based).
OccursAt(s, pat, i) ==
    /\ i >= 1
    /\ i + Len(pat) - 1 <= Len(s)
    /\ \A k \in 1..Len(pat) : s[i + k - 1] = pat[k]

\* String.prototype.indexOf, 1-based; 0 when pat does not occur.
IndexOf(s, pat) ==
    LET hits == {i \in 1..(Len(s) + 1) : OccursAt(s, pat, i)}
    IN  IF hits = {} THEN 0 ELSE CHOOSE i \in hits : \A j \in hits : i <= j

\* String.prototype.lastIndexOf, 1-based; 0 when pat does not occur.
LastIndexOf(s, pat) ==
    LET hits == {i \in 1..(Len(s) + 1) : OccursAt(s, pat, i)}
    IN  IF hits = {} THEN 0 ELSE CHOOSE i \in hits : \A j \in hits : i >= j

includes(s, pat) == IndexOf(s, pat) # 0

endsWith(s, pat) == Len(pat) <= Len(s) /\ OccursAt(s, pat, Len(s) - Len(pat) + 1)

\* String.prototype.replace with a string pattern: the FIRST occurrence only.
replace(s, pat, rep) ==
    LET i == IndexOf(s, pat)
    IN  IF i = 0 THEN s
        ELSE SubSeq(s, 1, i - 1) \o rep \o SubSeq(s, i + Len(pat), Len(s))

\* String.prototype.trim (the only white space of the model is the blank).
RECURSIVE trimStart(_)
trimStart(s) == IF s # <<>> /\ Head(s) = " " THEN trimStart(Tail(s)) ELSE s

RECURSIVE trimEnd(_)
trimEnd(s) ==
    IF s # <<>> /\ s[Len(s)] = " " THEN trimEnd(SubSeq(s, 1, Len(s) - 1)) ELSE s

trim(s) == trimEnd(trimStart(s))

\* String.prototype.split with a one-character separator.
RECURSIVE split(_, _)
split(s, sep) ==
    LET i == IndexOf(s, <<sep>>)
    IN  IF i = 0 THEN <<s>>
        ELSE <<SubSeq(s, 1, i - 1)>> \o split(SubSeq(s, i + 1, Len(s)), sep)

Digits == <<"0", "1", "2", "3", "4", "5", "6", "7", "8", "9">>
DigitSet == {Digits[i] : i \in 1..10}
DigitValue(c) == (CHOOSE i \in 1..10 : Digits[i] = c) - 1

\* /^\d+$/.test(s)
IsDigits(s) == s # <<>> /\ \A i \in 1..Len(s) : s[i] \in DigitSet

\* Number(s) for a string of decimal digits.
RECURSIVE ParseDigits(_)
ParseDigits(s) ==
    IF s = <<>> THEN 0
    ELSE 10 * ParseDigits(SubSeq(s, 1, Len(s) - 1)) + DigitValue(s[Len(s)])

\* String(n) for an integer: what a template literal interpolates.
RECURSIVE NatToString(_)
NatToString(n) ==
    IF n < 10 THEN <<Digits[n + 1]>>
    ELSE NatToString(n \div 10) \o <<Digits[(n % 10) + 1]>>

NumberToString(n) == IF n < 0 THEN <<"-">> \o NatToString(-n) ELSE NatToString(n)

(***************************************************************************)
(* JavaScript values: undefined, a number, a string.                       *)
(***************************************************************************)
Undefined == [t |-> "undefined", n |-> 0, s |-> <<>>]
Num(n) == [t |-> "number", n |-> n, s |-> <<>>]
Str(s) == [t |-> "string", n |-> 0, s |-> s]

\* ToBoolean: undefined, 0 and "" are falsy.
Truthy(v) ==
    CASE v.t = "undefined" -> FALSE
      [] v.t = "number" -> v.n # 0
      [] v.t = "string" -> v.s # <<>>

\* String(v), as a template literal interpolates it.
ValueToString(v) ==
    CASE v.t = "undefined" -> <<"undefined">>
      [] v.t = "number" -> NumberToString(v.n)
      [] v.t = "string" -> v.s

(***************************************************************************)
(* Configuration (ConfigSchema) and server construction.                   *)
(***************************************************************************)
\* z.string().url(): a scheme followed by a non-empty host.
IsUrl(s) == Len(s) >= 2 /\ s[1] = "http://" /\ \A i \in 2..Len(s) : s[i] # " "

\* The url field: z.string().trim().min(1).url().
UrlValid(u) == u.t = "string" /\ trim(u.s) # <<>> /\ IsUrl(trim(u.s))

\* The refinement as the schema would be with its second test left out.
RefineNoPasswordTest(data) ==
    IF Truthy(data.username) THEN Truthy(data.password)
    ELSE TRUE

\* ConfigSchema's .refine callback.
Refine(data) ==
    IF Truthy(data.username) THEN Truthy(data.password)
    ELSE IF Truthy(data.password) THEN Truthy(data.username)
    ELSE IF Truthy(data.apiKey) THEN TRUE
    ELSE TRUE

\* .optional().default(d): only undefined takes the default.
WithDefault(v, d) == IF v.t = "undefined" THEN Str(d) ELSE v

DefaultTemplate == <<"properties-search-template">>
DefaultInferenceId == <<".elser-2-elasticsearch">>

\* ConfigSchema.parse: the validated configuration, or a thrown ZodError.
ConfigParse(c) ==
    IF UrlValid(c.url) /\ Refine(c)
    THEN [ok |-> TRUE,
          data |-> [c EXCEPT !.url = Str(trim(c.url.s)),
                             !.propertiesSearchTemplate = WithDefault(@, DefaultTemplate),
                             !.inferenceId = WithDefault(@, DefaultInferenceId)]]
    ELSE [ok |-> FALSE, data |-> c]

OptionalStrings == {Undefined, Str(<<>>), Str(<<"v">>)}

Urls == {Undefined, Str(<<>>), Str(<<" ">>), Str(<<"es">>), Str(<<"http://", "es">>),
         Str(<<" ", "http://", "es", " ">>)}

Configs ==
    [url : Urls,
     apiKey : OptionalStrings,
     username : OptionalStrings,
     password : OptionalStrings,
     caCert : {Str(<<>>), Str(<<"ca.pem">>)},
     googleMapsApiKey : {Str(<<>>), Str(<<"key">>)},
     propertiesSearchTemplate : {Undefined, Str(<<>>)},
     inferenceId : {Undefined, Str(<<>>), Str(<<"my-elser">>)}]

ToolNames == {"get_properties_template_params", "geocode_location", "search_template"}

\* What the request of the prober can come to.
ProbeOutcomes == {"ok", "network_error", "timeout", "non_2xx"}

\* The prober as it would be if its catch block threw the error on.
WaitRethrows(outcome) ==
    IF outcome = "ok" THEN [value |-> TRUE, threw |-> FALSE]
    ELSE [value |-> FALSE, threw |-> TRUE]

\* waitForInferenceEndpoint after its one request has come to `outcome`:
\* true on success, false from the catch block on any error.
waitForInferenceEndpoint(outcome) ==
    IF outcome = "ok" THEN [value |-> TRUE, threw |-> FALSE]
    ELSE [value |-> FALSE, threw |-> FALSE]

\* The state of the tool invocations while the server is being built.
NoCall == [tool |-> "none"]

\* No value returned (yet).
NoResult == [returned |-> FALSE, content |-> <<>>, data |-> [kind |-> "none"]]

CallsIdle ==
    /\ pc = "idle"
    /\ call = NoCall
    /\ requests = <<>>
    /\ responses = <<>>
    /\ result = NoResult
    /\ escaped = FALSE

\* Lines 163-168: apiKey first, else username and password, else no auth.
AuthOf(data) ==
    IF Truthy(data.apiKey) THEN "apiKey"
    ELSE IF Truthy(data.username) /\ Truthy(data.password) THEN "basic"
    ELSE "none"

NoClientOptions == [node |-> <<>>, auth |-> "none", tls |-> FALSE]

InitStartup ==
    /\ config \in Configs
    /\ clientOptions = NoClientOptions
    /\ bootPc = "start"
    /\ probeRequests = 0
    /\ isReady = [returned |-> FALSE, value |-> FALSE]
    /\ probeThrew = FALSE
    /\ tools = {}
    /\ googleMapsApiKey = Undefined
    /\ CallsIdle

\* createElasticsearchMcpServer up to its first await: parse the configuration
\* (a ZodError leaves the function and main exits with code 1), set up the
\* client (a certificate file that cannot be read is logged and left out),
\* then either issue the one request of the prober or, with no inference id,
\* go on to build the server and register the tools.
CreateServer ==
    /\ bootPc = "start"
    /\ LET parsed == ConfigParse(config)
       IN  IF ~parsed.ok
           THEN /\ bootPc' = "failed"
                /\ UNCHANGED <<config, clientOptions, probeRequests, tools, googleMapsApiKey>>
           ELSE /\ config' = parsed.data
                /\ googleMapsApiKey' = parsed.data.googleMapsApiKey
                /\ \E readable \in BOOLEAN :
                      clientOptions' = [node |-> parsed.data.url.s,
                                        auth |-> AuthOf(parsed.data),
                                        tls |-> Truthy(parsed.data.caCert) /\ readable]
                /\ IF Truthy(parsed.data.inferenceId)
                   THEN /\ probeRequests' = probeRequests + 1
                        /\ bootPc' = "probing"
                        /\ tools' = tools
                   ELSE /\ bootPc' = "built"
                        /\ tools' = ToolNames
                        /\ UNCHANGED probeRequests
    /\ UNCHANGED <<isReady, probeThrew, pc, call, requests, responses, result, escaped>>

\* The request of the prober settles: waitForInferenceEndpoint returns, the
\* constructor logs a false result and goes on to register the three tools.
ProbeSettles ==
    /\ bootPc = "probing"
    /\ \E outcome \in ProbeOutcomes :
          LET r == waitForInferenceEndpoint(outcome)
          IN  /\ isReady' = [returned |-> ~r.threw, value |-> r.value]
              /\ probeThrew' = r.threw
    /\ bootPc' = "built"
    /\ tools' = ToolNames
    /\ UNCHANGED <<config, clientOptions, probeRequests, googleMapsApiKey,
                   pc, call, requests, responses, result, escaped>>

\* main: server.connect(transport).
Connect ==
    /\ bootPc = "built"
    /\ bootPc' = "serving"
    /\ UNCHANGED <<config, clientOptions, probeRequests, isReady, probeThrew, tools,
                   googleMapsApiKey, pc, call, requests, responses, result, escaped>>

NextStartup == CreateServer \/ ProbeSettles \/ Connect

SpecStartup == InitStartup /\ [][NextStartup]_vars

(***************************************************************************)
(* What every handler returns: { content: [{type: "text", text}], data? }. *)
(***************************************************************************)
TextResult(text) ==
    [returned |-> TRUE, content |-> <<text>>, data |-> [kind |-> "none"]]

\* Messages of the errors an external call can throw.
ErrorMessages == {"connect ECONNREFUSED", "resource_not_found_exception"}

\* The text of the catch blocks: `Error: ${error.message}`.
ErrorText(message) == <<"Error: ", message>>

(***************************************************************************)
(* Tool geocode_location.                                                  *)
(***************************************************************************)
LocTokens == {<<"A">>, <<"T", "X">>, <<",">>, <<" ">>}

\* The location strings a caller may send, before the schema trims them.
RawLocations == {Flatten(ts) : ts \in SeqsUpTo(LocTokens, MaxLocTokens)}

\* The first element of data.results: absent, without geometry.location, or a point.
NoFirst == [present |-> FALSE, hasLocation |-> FALSE, lat |-> 0, lng |-> 0]
FirstResults ==
    {NoFirst,
     [present |-> TRUE, hasLocation |-> FALSE, lat |-> 0, lng |-> 0],
     [present |-> TRUE, hasLocation |-> TRUE, lat |-> 29, lng |-> -95]}

\* What axios.get comes to: a thrown error, or a response with data.status
\* ("" when absent), data.error_message ("" when absent) and data.results.
\* The provider sends results with the status "OK" only, and a message with
\* another status only.
GeoResponses ==
    [threw : {TRUE}, message : ErrorMessages, status : {""}, error_message : {""},
     first : {NoFirst}]
    \cup
    [threw : {FALSE}, message : {""}, status : {"OK"}, error_message : {""},
     first : FirstResults]
    \cup
    [threw : {FALSE}, message : {""}, status : {"REQUEST_DENIED", ""},
     error_message : {"", "The provided API key is invalid."}, first : {NoFirst}]

\* The request the handler sends: the address (before encodeURIComponent) and region.
GeoRequest(address) == [to |-> "maps.googleapis.com", address |-> address, region |-> "us"]

NoKeyResult == TextResult(<<"Error: Google Maps API key not configured">>)

\* The failure text as it would be if it never named the provider's status.
StatusFailedUnknown(location, data) ==
    TextResult(<<"Geocoding failed: ", "Unknown error", " for location \"">> \o location \o <<"\"">>)

\* `Geocoding failed: ${status || 'Unknown error'} for location "${location}"`
StatusFailedResult(location, data) ==
    TextResult(<<"Geocoding failed: ", IF data.status # "" THEN data.status ELSE "Unknown error",
                 " for location \"">> \o location \o <<"\"">>)

NotFoundResult(location) ==
    TextResult(<<"Could not geocode location: \"">> \o location \o <<"\"">>)

\* JSON.stringify(geoPoint)
GeoPointJson(p) ==
    <<"{\"latitude\":">> \o NumberToString(p.latitude) \o <<",\"longitude\":">>
        \o NumberToString(p.longitude) \o <<"}">>

\* Lines 372-399: the handler's end, given the result the attempts left.
GeoFinish(location, first) ==
    IF ~first.present \/ ~first.hasLocation
    THEN NotFoundResult(location)
    ELSE LET geoPoint == [kind |-> "geoPoint", latitude |-> first.lat, longitude |-> first.lng]
         IN  [returned |-> TRUE,
              content |-> << <<"Geocoded \"">> \o location \o <<"\" to: ">> \o GeoPointJson(geoPoint) >>,
              data |-> geoPoint]

\* The catch block of geocode_location: the error becomes the tool's result.
GeocodeCatch(message) == [result |-> TextResult(ErrorText(message)), escaped |-> FALSE]

\* A handler that returns `r` normally.
Returns(r) == [result |-> r, escaped |-> FALSE]

\* What a step of the handler leaves: where it waits next, the requests issued
\* so far, and what it returned or threw once it is over.
GeoStep(at, reqs, end) == [pc |-> at, requests |-> reqs, end |-> end]

\* Lines 360-369, entered with no result: "Try without any state abbreviation".
\* JavaScript's stateIndex > 0 is an index > 1 here.
GeoTryComma(location, reqs) ==
    LET stateIndex == LastIndexOf(location, <<",">>)
    IN  IF stateIndex > 1
        THEN GeoStep("geo_comma",
                     Append(reqs, GeoRequest(trim(SubSeq(location, 1, stateIndex - 1)))),
                     Returns(NoResult))
        ELSE GeoStep("returned", reqs, Returns(GeoFinish(location, NoFirst)))

\* The primary response handled without the status check of lines 331-342.
GeoAfterPrimaryNoStatusTest(location, reqs, resp) ==
    IF resp.threw THEN GeoStep("returned", reqs, GeocodeCatch(resp.message))
    ELSE IF resp.first.present
    THEN GeoStep("returned", reqs, Returns(GeoFinish(location, resp.first)))
    ELSE IF includes(location, <<"T", "X">>)
    THEN GeoStep("geo_texas",
                 Append(reqs, GeoRequest(replace(location, <<"T", "X">>,
                                                 <<"T", "e", "x", "a", "s">>))),
                 Returns(NoResult))
    ELSE GeoTryComma(location, reqs)

\* Lines 326-357: the primary response has arrived.
GeoAfterPrimary(location, reqs, resp) ==
    IF resp.threw THEN GeoStep("returned", reqs, GeocodeCatch(resp.message))
    ELSE IF resp.status # "OK"
    THEN GeoStep("returned", reqs, Returns(StatusFailedResult(location, resp)))
    ELSE IF resp.first.present
    THEN GeoStep("returned", reqs, Returns(GeoFinish(location, resp.first)))
    ELSE IF includes(location, <<"T", "X">>)
    THEN GeoStep("geo_texas",
                 Append(reqs, GeoRequest(replace(location, <<"T", "X">>,
                                                 <<"T", "e", "x", "a", "s">>))),
                 Returns(NoResult))
    ELSE GeoTryComma(location, reqs)

\* The "Texas" fallback that goes on to the next fallback whatever it found.
GeoAfterTexasNoTest(location, reqs, resp) ==
    IF resp.threw THEN GeoStep("returned", reqs, GeocodeCatch(resp.message))
    ELSE GeoTryComma(location, reqs)

\* Lines 355-360: the response to the "Texas" fallback has arrived.
GeoAfterTexas(location, reqs, resp) ==
    IF resp.threw THEN GeoStep("returned", reqs, GeocodeCatch(resp.message))
    ELSE IF ~resp.first.present THEN GeoTryComma(location, reqs)
    ELSE GeoStep("returned", reqs, Returns(GeoFinish(location, resp.first)))

\* Lines 366-372: the response to the before-the-comma fallback has arrived.
GeoAfterComma(location, reqs, resp) ==
    IF resp.threw THEN GeoStep("returned", reqs, GeocodeCatch(resp.message))
    ELSE GeoStep("returned", reqs, Returns(GeoFinish(location, resp.first)))

\* The server takes tool calls once it is connected, one at a time, and none
\* after an exception has left a handler.
CanCall == bootPc = "serving" /\ pc = "idle" /\ ~escaped

\* A geocode_location call arrives; the schema trims the location and refuses
\* an empty one.  Without an API key the handler returns at once, otherwise it
\* sends the primary request.
GeocodeCall ==
    /\ CanCall
    /\ \E raw \in RawLocations :
          /\ trim(raw) # <<>>
          /\ LET location == trim(raw)
             IN  /\ call' = [tool |-> "geocode_location", location |-> location]
                 /\ responses' = <<>>
                 /\ IF ~Truthy(googleMapsApiKey)
                    THEN /\ requests' = <<>>
                         /\ result' = NoKeyResult
                         /\ pc' = "returned"
                    ELSE /\ requests' = <<GeoRequest(location)>>
                         /\ result' = NoResult
                         /\ pc' = "geo_primary"
    /\ UNCHANGED <<config, clientOptions, bootPc, probeRequests, isReady, probeThrew, tools,
                   googleMapsApiKey, escaped>>

\* A step of the handler takes effect.
GeoTakes(step, resp) ==
    /\ pc' = step.pc
    /\ requests' = step.requests
    /\ responses' = Append(responses, resp)
    /\ result' = step.end.result
    /\ escaped' = step.end.escaped
    /\ UNCHANGED <<config, clientOptions, bootPc, probeRequests, isReady, probeThrew, tools,
                   googleMapsApiKey, call>>

\* The primary request settles (line 326).
GeocodePrimarySettles ==
    /\ pc = "geo_primary"
    /\ \E resp \in GeoResponses :
          GeoTakes(GeoAfterPrimary(call.location, requests, resp), resp)

\* The request of the "Texas" fallback settles (line 355).
GeocodeTexasSettles ==
    /\ pc = "geo_texas"
    /\ \E resp \in GeoResponses :
          GeoTakes(GeoAfterTexas(call.location, requests, resp), resp)

\* The request of the before-the-comma fallback settles (line 366).
GeocodeCommaSettles ==
    /\ pc = "geo_comma"
    /\ \E resp \in GeoResponses :
          GeoTakes(GeoAfterComma(call.location, requests, resp), resp)

(***************************************************************************)
(* Tool get_properties_template_params.                                    *)
(***************************************************************************)
SourceTokens == {<<"{", "{">>, <<"}", "}">>, <<" ">>, <<"a">>, <<"b">>}

\* Template sources: the short ones, and three with more than one placeholder.
Sources ==
    {Flatten(ts) : ts \in SeqsUpTo(SourceTokens, MaxSourceTokens)}
    \cup {Flatten(<< <<"{", "{">>, <<"a">>, <<"}", "}">>, <<" ">>, <<"{", "{">>, <<" ">>, <<"b">>, <<" ">>, <<"}", "}">> >>),
          Flatten(<< <<"{", "{">>, <<"b">>, <<"}", "}">>, <<"{", "{">>, <<"a">>, <<"}", "}">>, <<"{", "{">>, <<"b">>, <<"}", "}">> >>)}

\* [a-zA-Z0-9_] within the alphabet of Sources.
WordChars == {"a", "b"}

\* The first index >= i of s whose character is not in S (Len(s) + 1 if none).
RECURSIVE SkipWhile(_, _, _)
SkipWhile(s, i, S) ==
    IF i <= Len(s) /\ s[i] \in S THEN SkipWhile(s, i + 1, S) ELSE i

\* /\{\{\s*([a-zA-Z0-9_]+)\s*\}\}/ tried at index i: the index after the match
\* and the captured name, or 0 when there is no match at i.  The classes of
\* the pattern are disjoint, so the greedy match is the only one.
MatchAt(s, i) ==
    IF ~OccursAt(s, <<"{", "{">>, i) THEN [next |-> 0, name |-> <<>>]
    ELSE LET j1 == SkipWhile(s, i + 2, {" "})
             j2 == SkipWhile(s, j1, WordChars)
             j3 == SkipWhile(s, j2, {" "})
         IN  IF j2 > j1 /\ OccursAt(s, <<"}", "}">>, j3)
             THEN [next |-> j3 + 2, name |-> SubSeq(s, j1, j2 - 1)]
             ELSE [next |-> 0, name |-> <<>>]

\* source.match(/.../g) followed by the two replace calls that strip the
\* braces: the names of the placeholders, left to right.
RECURSIVE ParamMatches(_, _)
ParamMatches(s, i) ==
    IF i > Len(s) THEN <<>>
    ELSE LET m == MatchAt(s, i)
         IN  IF m.next = 0 THEN ParamMatches(s, i + 1)
             ELSE <<m.name>> \o ParamMatches(s, m.next)

\* [...new Set(list)]: the first occurrence of each element, in order.
RECURSIVE Distinct(_)
Distinct(list) ==
    IF list = <<>> THEN <<>>
    ELSE LET front == Distinct(SubSeq(list, 1, Len(list) - 1))
             last == list[Len(list)]
         IN  IF \E k \in 1..Len(front) : front[k] = last THEN front
             ELSE Append(front, last)

\* Array.prototype.join
RECURSIVE Join(_, _)
Join(list, sep) ==
    IF list = <<>> THEN <<>>
    ELSE IF Len(list) = 1 THEN list[1]
    ELSE list[1] \o sep \o Join(Tail(list), sep)

\* What GET /_scripts/<id> comes to: a thrown error (the template is missing),
\* or a response body of one of these shapes.
TemplateResponses ==
    [threw : {TRUE}, message : ErrorMessages, shape : {"none"}, source : {<<>>}]
    \cup
    [threw : {FALSE}, message : {""},
     shape : {"null", "not_an_object", "no_script", "script_null", "script_without_source",
              "source_not_a_string"},
     source : {<<>>}]
    \cup
    [threw : {FALSE}, message : {""}, shape : {"source"}, source : Sources]

SourceNotAvailable == <<"T", "e", "m", "p", "l", "a", "t", "e", " ", "s", "o", "u", "r", "c", "e",
                        " ", "n", "o", "t", " ", "a", "v", "a", "i", "l", "a", "b", "l", "e">>

\* Lines 223-234: "Safely extract the script source".
ExtractSource(resp) ==
    IF resp.shape \in {"source", "source_not_a_string"} THEN resp.source
    ELSE SourceNotAvailable

\* The fixed glossary of lines 260-268, cut short.
Glossary == <<"- query: Main search query (mandatory) ... *pool*updated kitchen*">>

\* Lines 244-274: the parameter list the handler returns.
ParameterListResult(parameters) ==
    [returned |-> TRUE,
     content |-> << <<"Required parameters for properties search template:">>,
                    Join(parameters, <<",", " ">>),
                    <<"Parameter descriptions:">>,
                    Glossary >>,
     data |-> [kind |-> "parameters", parameters |-> parameters]]

\* The catch block of get_properties_template_params as it would be if it threw on.
TemplateRethrows(message) == [result |-> NoResult, escaped |-> TRUE]

\* The catch block of get_properties_template_params.
TemplateCatch(message) == [result |-> TextResult(ErrorText(message)), escaped |-> FALSE]

\* Lines 214-291 after the request: a thrown request and a source that is not
\* a string (source.match is then no function) end in the catch block, every
\* other response in the parameter list.
TemplateAfterFetch(resp) ==
    IF resp.threw THEN TemplateCatch(resp.message)
    ELSE IF resp.shape = "source_not_a_string"
    THEN TemplateCatch("source.match is not a function")
    ELSE Returns(ParameterListResult(Distinct(ParamMatches(ExtractSource(resp), 1))))

TemplateRequest(template_id) == [to |-> "elasticsearch", method |-> "GET", path |-> <<"/_scripts/">> \o template_id]

TemplateCall ==
    /\ CanCall
    /\ call' = [tool |-> "get_properties_template_params"]
    /\ requests' = <<TemplateRequest(config.propertiesSearchTemplate.s)>>
    /\ responses' = <<>>
    /\ result' = NoResult
    /\ pc' = "tpl_fetch"
    /\ UNCHANGED <<config, clientOptions, bootPc, probeRequests, isReady, probeThrew, tools,
                   googleMapsApiKey, escaped>>

TemplateSettles ==
    /\ pc = "tpl_fetch"
    /\ \E resp \in TemplateResponses :
          LET end == TemplateAfterFetch(resp)
          IN  /\ result' = end.result
              /\ escaped' = end.escaped
              /\ responses' = Append(responses, resp)
    /\ pc' = "returned"
    /\ UNCHANGED <<config, clientOptions, bootPc, probeRequests, isReady, probeThrew, tools,
                   googleMapsApiKey, call, requests>>

(***************************************************************************)
(* Tool search_template: parameter normalization.                          *)
(***************************************************************************)
mi == <<"m", "i">>
miles == <<"m", "i", "l", "e", "s">>
km == <<"k", "m">>

\* Lines 460-466: the first pass over a string distance, "20mi -> 20miles".
DistanceFirstPass(d) ==
    IF Truthy(d) /\ d.t = "string" /\ endsWith(d.s, mi) /\ ~endsWith(d.s, miles)
    THEN Str(replace(d.s, mi, miles))
    ELSE d

\* Lines 467-492: the second pass, the default unit.
DistanceSecondPass(d) ==
    IF ~Truthy(d) THEN d
    ELSE IF d.t = "number" THEN Str(NumberToString(d.n) \o miles)
    ELSE IF d.t = "string"
    THEN IF IsDigits(d.s) THEN Str(d.s \o miles)
         ELSE IF endsWith(d.s, mi) /\ ~endsWith(d.s, miles) THEN Str(replace(d.s, mi, miles))
         ELSE IF ~includes(d.s, miles) /\ ~includes(d.s, km) THEN Str(d.s \o miles)
         ELSE d
    ELSE d

NormalizeDistance(d) == DistanceSecondPass(DistanceFirstPass(d))

\* Number(s), s a string: NaN unless, trimmed, s is empty (0) or decimal digits.
\* (The strings of the model hold no sign, point, exponent or radix prefix.)
NumberIsNaN(s) == trim(s) # <<>> /\ ~IsDigits(trim(s))
NumberOf(s) == ParseDigits(trim(s))

\* Lines 495-506: "Fix home_price format if needed".  parts[1] of JavaScript is
\* the second element of the split, "" being falsy and a missing one undefined.
NormalizeHomePrice(h) ==
    IF Truthy(h) /\ h.t = "string" /\ includes(h.s, <<"-">>)
    THEN LET parts == split(h.s, "-")
             upperLimit == parts[2]
         IN  IF upperLimit # <<>> /\ ~NumberIsNaN(upperLimit)
             THEN Num(NumberOf(upperLimit))
             ELSE h
    ELSE h

\* Lines 451-458: latitude/longitude from lat/lon.
NormalizeLatLon(p) ==
    IF p.lat.t # "undefined" /\ p.lon.t # "undefined"
    THEN [p EXCEPT !.latitude = p.lat, !.longitude = p.lon]
    ELSE p

\* Lines 446-506: the parameters sent to the template.
NormalizeParams(params, original_query) ==
    LET p1 == [params EXCEPT !.query = Str(original_query)]
        p2 == NormalizeLatLon(p1)
        p3 == [p2 EXCEPT !.distance = NormalizeDistance(@)]
    IN  [p3 EXCEPT !.home_price = NormalizeHomePrice(@)]

(***************************************************************************)
(* The parameters a caller may send.                                       *)
(***************************************************************************)
DistTokens == {<<"5">>, mi, <<"l", "e", "s">>, km}
DistanceStrings == {Flatten(ts) : ts \in SeqsUpTo(DistTokens, MaxDistTokens)}
Numbers == {0, 5, 20, -1}
Distances == {Undefined} \cup {Num(n) : n \in Numbers} \cup {Str(s) : s \in DistanceStrings}

PriceChars == {"0", "5", "-", "a"}
Prices ==
    {Undefined} \cup {Num(n) : n \in {0, 500000}}
    \cup {Str(s) : s \in SeqsUpTo(PriceChars, MaxPriceLen)}
    \cup {Str(<<"0", "-", "5", "0", "0", "0", "0", "0">>),
          Str(<<"1", "0", "0", "-", "2", "0", "0", "-", "3", "0", "0">>)}

NoParams ==
    [query |-> Undefined, lat |-> Undefined, lon |-> Undefined, latitude |-> Undefined,
     longitude |-> Undefined, distance |-> Undefined, home_price |-> Undefined,
     from |-> Undefined]

\* One parameter varied at a time over its whole range, and a few together.
ParamsSent ==
    {[NoParams EXCEPT !.distance = d] : d \in Distances}
    \cup {[NoParams EXCEPT !.home_price = h] : h \in Prices}
    \cup {[NoParams EXCEPT !.from = f, !.lat = la, !.lon = lo, !.query = q] :
             f \in {Undefined, Num(0), Num(10)},
             la \in {Undefined, Num(29)},
             lo \in {Undefined, Num(-95)},
             q \in {Undefined, Str(<<"old">>)}}
    \cup {[NoParams EXCEPT !.distance = d, !.home_price = h, !.from = Num(10)] :
             d \in {Num(5), Str(<<"5">> \o mi)},
             h \in {Str(<<"0", "-", "5">>), Num(5)}}

Queries == {<<"homes near the beach">>}

(***************************************************************************)
(* Tool search_template: execution and result shaping.                     *)
(***************************************************************************)
\* Hits: highlight and _source as their Object.entries, in order.
HitPlain ==
    [highlight |-> <<>>,
     source |-> << [field |-> "title", value |-> Str(<<"Loft">>)],
                   [field |-> "price", value |-> Num(5)] >>]
HitHighlighted ==
    [highlight |-> << [field |-> "title", highlights |-> <<"<em>Loft</em>", "<em>pool</em>">>],
                      [field |-> "body", highlights |-> <<>>] >>,
     source |-> << [field |-> "title", value |-> Str(<<"Loft with pool">>)],
                   [field |-> "body", value |-> Str(<<"Bright">>)],
                   [field |-> "price", value |-> Num(20)] >>]
Hits == {HitPlain, HitHighlighted}

\* hits.total: a number, an object { value }, or absent.
Totals ==
    {[kind |-> "number", value |-> n] : n \in {0, 42}}
    \cup {[kind |-> "object", value |-> n] : n \in {0, 42}}
    \cup {[kind |-> "undefined", value |-> 0]}

\* What esClient.searchTemplate comes to: a thrown error, a body without
\* hits.hits, or a body with hits.
SearchResponses ==
    [threw : {TRUE}, message : ErrorMessages, wellFormed : {FALSE},
     total : {[kind |-> "undefined", value |-> 0]}, hits : {<<>>}]
    \cup
    [threw : {FALSE}, message : {""}, wellFormed : {FALSE},
     total : {[kind |-> "undefined", value |-> 0]}, hits : {<<>>}]
    \cup
    [threw : {FALSE}, message : {""}, wellFormed : {TRUE},
     total : Totals, hits : SeqsUpTo(Hits, MaxHits)]

\* JSON.stringify of a number or a string (the strings of the model need no escape).
JsonStringify(v) ==
    IF v.t = "number" THEN NumberToString(v.n) ELSE <<"\"">> \o v.s \o <<"\"">>

\* Lines 525-529: the highlighted fields of a hit.
RECURSIVE HighlightLines(_)
HighlightLines(entries) ==
    IF entries = <<>> THEN <<>>
    ELSE LET e == Head(entries)
         IN  (IF Len(e.highlights) > 0
              THEN <<e.field, " (highlighted): ">> \o Join([i \in 1..Len(e.highlights) |-> <<e.highlights[i]>>], <<" ... ">>) \o <<"\n">>
              ELSE <<>>)
             \o HighlightLines(Tail(entries))

\* Lines 531-535: the source fields that have no highlight.
RECURSIVE SourceLines(_, _)
SourceLines(entries, highlighted) ==
    IF entries = <<>> THEN <<>>
    ELSE LET e == Head(entries)
         IN  (IF e.field \notin highlighted
              THEN <<e.field, ": ">> \o JsonStringify(e.value) \o <<"\n">>
              ELSE <<>>)
             \o SourceLines(Tail(entries), highlighted)

\* content.trim(): the content ends with a line break or is empty.
TrimContent(text) ==
    IF text # <<>> /\ text[Len(text)] = "\n" THEN SubSeq(text, 1, Len(text) - 1) ELSE text

\* Lines 519-541: the fragment of one hit.
HitFragment(hit) ==
    TrimContent(HighlightLines(hit.highlight)
                \o SourceLines(hit.source, {hit.highlight[i].field : i \in 1..Len(hit.highlight)}))

\* The total read from the wrong place: a wrapped total is not unwrapped.
TotalTextNoUnwrap(total) ==
    IF total.kind = "number" THEN NumberToString(total.value) ELSE NumberToString(0)

\* Lines 546-548: typeof total === "number" ? total : total?.value || 0
TotalText(total) ==
    IF total.kind = "number" THEN NumberToString(total.value)
    ELSE IF total.kind = "object" /\ total.value # 0 THEN NumberToString(total.value)
    ELSE NumberToString(0)

\* Line 518: normalizedParams.from || 0
FromOf(params) == IF Truthy(params.from) THEN params.from ELSE Num(0)

MetadataTail == ". Maximum of 5 results are shown with ALL available property details included. No additional API calls are needed to get more details about these properties."

\* Lines 543-550: the metadata fragment.
MetadataFragment(params, resp) ==
    <<"Total results: ">> \o TotalText(resp.total) \o <<", showing ">>
        \o NumberToString(Len(resp.hits)) \o <<" from position ">>
        \o ValueToString(FromOf(params)) \o <<MetadataTail>>

\* Lines 552-554: [metadataFragment, ...contentFragments]
SearchResult(params, resp) ==
    [returned |-> TRUE,
     content |-> <<MetadataFragment(params, resp)>> \o [i \in 1..Len(resp.hits) |-> HitFragment(resp.hits[i])],
     data |-> [kind |-> "none"]]

\* The catch block of search_template as it would be if it threw the error on.
SearchRethrows(message) == [result |-> NoResult, escaped |-> TRUE]

\* The catch block of search_template.
SearchCatch(message) == [result |-> TextResult(ErrorText(message)), escaped |-> FALSE]

\* Lines 518-571 after the request: a thrown request and a body without
\* hits.hits (reading it throws a TypeError) end in the catch block.
SearchAfterExecute(params, resp) ==
    IF resp.threw THEN SearchCatch(resp.message)
    ELSE IF ~resp.wellFormed
    THEN SearchCatch("Cannot read properties of undefined (reading 'hits')")
    ELSE Returns(SearchResult(params, resp))

\* Lines 441-443 and 512-516: index and template are fixed, whatever the caller sent.
SearchRequest(normalizedParams) ==
    [to |-> "elasticsearch", index |-> "properties", id |-> "properties-search-template",
     params |-> normalizedParams]

SearchCall ==
    /\ CanCall
    /\ \E params \in ParamsSent, original_query \in Queries :
          /\ call' = [tool |-> "search_template", params |-> params,
                      original_query |-> original_query]
          /\ requests' = <<SearchRequest(NormalizeParams(params, original_query))>>
    /\ responses' = <<>>
    /\ result' = NoResult
    /\ pc' = "search_exec"
    /\ UNCHANGED <<config, clientOptions, bootPc, probeRequests, isReady, probeThrew, tools,
                   googleMapsApiKey, escaped>>

SearchSettles ==
    /\ pc = "search_exec"
    /\ \E resp \in SearchResponses :
          LET end == SearchAfterExecute(requests[1].params, resp)
          IN  /\ result' = end.result
              /\ escaped' = end.escaped
              /\ responses' = Append(responses, resp)
    /\ pc' = "returned"
    /\ UNCHANGED <<config, clientOptions, bootPc, probeRequests, isReady, probeThrew, tools,
                   googleMapsApiKey, call, requests>>

(***************************************************************************)
(* The built server serving tool calls.                                    *)
(***************************************************************************)
\* A server main has built and connected: a configuration that passed
\* validation, with or without a Google Maps key.
ServingConfigs ==
    {ConfigParse(c).data : c \in {k \in Configs : /\ k.url = Str(<<"http://", "es">>)
                                                  /\ k.apiKey = Str(<<"v">>)
                                                  /\ k.caCert = Str(<<>>)
                                                  /\ k.username = Undefined
                                                  /\ k.password = Undefined
                                                  /\ k.propertiesSearchTemplate = Undefined
                                                  /\ k.inferenceId = Str(<<>>)}}

Init ==
    /\ config \in ServingConfigs
    /\ clientOptions = [node |-> config.url.s, auth |-> AuthOf(config), tls |-> FALSE]
    /\ bootPc = "serving"
    /\ probeRequests = 0
    /\ isReady = [returned |-> FALSE, value |-> FALSE]
    /\ probeThrew = FALSE
    /\ tools = ToolNames
    /\ googleMapsApiKey = config.googleMapsApiKey
    /\ CallsIdle

\* The handler has returned: the transport sends its result to the client and
\* the invocation is over; nothing of it is kept.
Respond ==
    /\ pc = "returned"
    /\ ~escaped
    /\ pc' = "idle"
    /\ call' = NoCall
    /\ requests' = <<>>
    /\ responses' = <<>>
    /\ result' = NoResult
    /\ UNCHANGED <<config, clientOptions, bootPc, probeRequests, isReady, probeThrew, tools,
                   googleMapsApiKey, escaped>>

ToolCall == TemplateCall \/ GeocodeCall \/ SearchCall

Next ==
    \/ TemplateCall
    \/ TemplateSettles
    \/ GeocodeCall
    \/ GeocodePrimarySettles
    \/ GeocodeTexasSettles
    \/ GeocodeCommaSettles
    \/ SearchCall
    \/ SearchSettles
    \/ Respond

Spec == Init /\ [][Next]_vars

(***************************************************************************)
(* Properties of geocode_location.                                         *)
(***************************************************************************)
InGeocode == call.tool = "geocode_location"

\* The primary response has status "OK" and an empty result list.
PrimaryEmpty(resp) == ~resp.threw /\ resp.status = "OK" /\ ~resp.first.present

\* A fallback response that came back with no result.
CameBackEmpty(resp) == ~resp.threw /\ ~resp.first.present

TexasVariant(location) == replace(location, <<"T", "X">>, <<"T", "e", "x", "a", "s">>)

\* C1 (as amended): after a primary response with status "OK" and no result,
\* the requests issued are, in this order, the primary one, then (if the
\* location contains "TX") one with the first "TX" replaced by "Texas", then
\* (if that too came back empty, or was not tried, and the last comma of the
\* location is not its first character) one with the trimmed text before the
\* last comma; a primary response of any other kind is followed by no request.
C1_FallbackOrder ==
    (InGeocode /\ Len(responses) >= 1) =>
        LET location == call.location
            hasTX == includes(location, <<"T", "X">>)
            lastComma == LastIndexOf(location, <<",">>)
            texasTurnedEmpty ==
                hasTX => (Len(responses) >= 2 /\ CameBackEmpty(responses[2]))
            expected ==
                <<GeoRequest(location)>>
                \o (IF hasTX THEN <<GeoRequest(TexasVariant(location))>> ELSE <<>>)
                \o (IF texasTurnedEmpty /\ lastComma > 1
                    THEN <<GeoRequest(trim(SubSeq(location, 1, lastComma - 1)))>>
                    ELSE <<>>)
        IN  IF PrimaryEmpty(responses[1])
            THEN requests = expected
            ELSE requests = <<GeoRequest(location)>>

\* C1, witness: all three requests were issued, the last for the text before the comma.
C1_Witness ==
    /\ InGeocode
    /\ pc = "returned"
    /\ Len(requests) = 3
    /\ call.location = <<"A", " ", ",", "T", "X">>
    /\ requests[2].address = <<"A", " ", ",", "T", "e", "x", "a", "s">>
    /\ requests[3].address = <<"A">>

\* C1 as the claim states it: the last retry is issued whenever the location
\* contains a comma, with the substring before the last comma as it stands.
C1_Original ==
    (InGeocode /\ Len(responses) >= 1 /\ PrimaryEmpty(responses[1])) =>
        LET location == call.location
            hasTX == includes(location, <<"T", "X">>)
            lastComma == LastIndexOf(location, <<",">>)
            texasTurnedEmpty ==
                hasTX => (Len(responses) >= 2 /\ CameBackEmpty(responses[2]))
            expected ==
                <<GeoRequest(location)>>
                \o (IF hasTX THEN <<GeoRequest(TexasVariant(location))>> ELSE <<>>)
                \o (IF texasTurnedEmpty /\ includes(location, <<",">>)
                    THEN <<GeoRequest(SubSeq(location, 1, lastComma - 1))>>
                    ELSE <<>>)
        IN  requests = expected

\* The primary response carries a status other than "OK".
StatusNotOk ==
    /\ InGeocode
    /\ pc = "returned"
    /\ Len(responses) = 1
    /\ ~responses[1].threw
    /\ responses[1].status # "OK"

Carries(text, piece) == \E i \in 1..Len(text) : text[i] = piece

\* C7 (as amended): when the primary response has a status other than "OK",
\* the handler returns, after that one request, a failure result whose text
\* names the provider's status ("Unknown error" when the response has none)
\* and the location; the provider's message is not part of the result.
C7_StatusFailure ==
    StatusNotOk =>
        LET data == responses[1]
            named == IF data.status = "" THEN "Unknown error" ELSE data.status
        IN  /\ result.returned /\ ~escaped
            /\ Len(requests) = 1
            /\ result.data.kind = "none"
            /\ result.content =
                 << <<"Geocoding failed: ", named, " for location \"">> \o call.location \o <<"\"">> >>
            /\ data.error_message # "" => ~Carries(result.content[1], data.error_message)

\* C7, witness: a denied request with a message, answered with the status alone.
C7_Witness ==
    /\ StatusNotOk
    /\ responses[1].status = "REQUEST_DENIED"
    /\ responses[1].error_message # ""
    /\ Carries(result.content[1], "REQUEST_DENIED")

\* C7 as the claim states it: the failure result carries the provider's
\* status and the provider's message.
C7_Original ==
    StatusNotOk =>
        /\ responses[1].status # "" => Carries(result.content[1], responses[1].status)
        /\ responses[1].error_message # "" =>
               Carries(result.content[1], responses[1].error_message)

(***************************************************************************)
(* Properties of search_template.                                          *)
(***************************************************************************)
\* The search request has been sent: what the caller gave and what was sent.
InSearch == call.tool = "search_template"
SentParams == requests[1].params

\* The substring after the last dash.
AfterLastDash(s) == SubSeq(s, LastIndexOf(s, <<"-">>) + 1, Len(s))

\* C4 as the claim states it: a home_price string with a dash is replaced by
\* the number after its LAST dash when that substring is numeric, and is
\* otherwise unchanged, as is a number or a string without a dash.
C4_Original ==
    InSearch =>
        LET h == call.params.home_price
        IN  IF h.t = "string" /\ includes(h.s, <<"-">>)
            THEN IF IsDigits(AfterLastDash(h.s))
                 THEN SentParams.home_price = Num(ParseDigits(AfterLastDash(h.s)))
                 ELSE SentParams.home_price = h
            ELSE SentParams.home_price = h

\* C5 as the claim states it: a distance ending in "mi" but not in "miles" is
\* sent with "les" appended; one ending in "miles", and one containing "km"
\* (and not ending in "mi"), is sent unchanged.
C5_Original ==
    (InSearch /\ call.params.distance.t = "string") =>
        LET d == call.params.distance.s
        IN  IF endsWith(d, mi) /\ ~endsWith(d, miles)
            THEN SentParams.distance = Str(d \o <<"l", "e", "s">>)
            ELSE (endsWith(d, miles) \/ includes(d, km)) => SentParams.distance = Str(d)

\* C6 as the claim states it: every number N is sent as "Nmiles", 0 included;
\* every string of digits, and every other string with neither "miles" nor
\* "km" that does not end in "mi", the empty one included, gets "miles" appended.
C6_Original ==
    InSearch =>
        LET d == call.params.distance
        IN  /\ d.t = "number" => SentParams.distance = Str(NumberToString(d.n) \o miles)
            /\ (d.t = "string" /\ IsDigits(d.s)) => SentParams.distance = Str(d.s \o miles)
            /\ (d.t = "string" /\ ~includes(d.s, miles) /\ ~includes(d.s, km)
                    /\ ~endsWith(d.s, mi))
                 => SentParams.distance = Str(d.s \o miles)

\* The search came back with hits.
SearchSucceeded ==
    /\ InSearch
    /\ pc = "returned"
    /\ ~responses[1].threw
    /\ responses[1].wellFormed

\* C10: a successful search returns one metadata fragment followed by one
\* fragment per hit, in the order of the backend; the metadata fragment reads
\* "Total results: T, showing H from position F...", T the numeric total or the
\* value of a wrapped one, H the number of hits, F params.from or 0 without one.
C10_ResultShape ==
    SearchSucceeded =>
        LET resp == responses[1]
            from == call.params.from
            F == IF from.t = "undefined" THEN <<"0">> ELSE NumberToString(from.n)
        IN  /\ result.returned
            /\ Len(result.content) = 1 + Len(resp.hits)
            /\ \A i \in 1..Len(resp.hits) : result.content[i + 1] = HitFragment(resp.hits[i])
            /\ resp.total.kind \in {"number", "object"} =>
                 result.content[1] =
                     <<"Total results: ">> \o NumberToString(resp.total.value)
                     \o <<", showing ">> \o NumberToString(Len(resp.hits))
                     \o <<" from position ">> \o F \o <<MetadataTail>>

\* C10, witness: a wrapped total of 42, two different hits, from = 10.
C10_Witness ==
    /\ SearchSucceeded
    /\ responses[1].total = [kind |-> "object", value |-> 42]
    /\ responses[1].hits = <<HitHighlighted, HitPlain>>
    /\ call.params.from = Num(10)
    /\ result.content[1] = <<"Total results: ", "4", "2", ", showing ", "2",
                             " from position ", "1", "0", MetadataTail>>
    /\ result.content[2] = <<"title", " (highlighted): ", "<em>Loft</em>", " ... ",
                             "<em>pool</em>", "\n", "price", ": ", "2", "0">>
    /\ result.content[3] = <<"title", ": ", "\"", "Loft", "\"", "\n", "price", ": ", "5">>

(***************************************************************************)
(* Properties of get_properties_template_params.                           *)
(***************************************************************************)
TemplateReturned == call.tool = "get_properties_template_params" /\ pc = "returned"

\* The response bodies with no script source.
NoSourceShapes == {"null", "not_an_object", "no_script", "script_null", "script_without_source"}

\* C8 (as amended): the handler never throws; when the fetch fails it returns
\* the error payload "Error: <message>" and no parameter list; when the
\* response has no script source it returns the usual parameter-list result,
\* with an empty list of parameters.
C8_GracefulTemplate ==
    TemplateReturned =>
        LET resp == responses[1]
        IN  /\ ~escaped /\ result.returned
            /\ resp.threw =>
                 /\ result.content = << <<"Error: ", resp.message>> >>
                 /\ result.data.kind = "none"
            /\ (~resp.threw /\ resp.shape \in NoSourceShapes) =>
                 /\ result.data = [kind |-> "parameters", parameters |-> <<>>]
                 /\ Len(result.content) = 4
                 /\ result.content[1] = <<"Required parameters for properties search template:">>
                 /\ result.content[2] = <<>>

\* C8, witness: a response without a script, answered with an empty parameter list.
C8_Witness ==
    /\ TemplateReturned
    /\ ~responses[1].threw
    /\ responses[1].shape = "no_script"
    /\ result.data = [kind |-> "parameters", parameters |-> <<>>]

\* C8 as the claim states it: a missing or malformed template yields an error
\* payload and no parameter-list result.
C8_Original ==
    (TemplateReturned /\ (responses[1].threw \/ responses[1].shape \in NoSourceShapes)) =>
        /\ ~escaped /\ result.returned
        /\ Head(result.content[1]) = "Error: "
        /\ result.data.kind # "parameters"

(***************************************************************************)
(* Properties of the tool boundary.                                        *)
(***************************************************************************)
\* The external call of the invocation failed.
ExternalCallFailed == pc = "returned" /\ responses # <<>> /\ responses[Len(responses)].threw

\* C2: no exception leaves a handler; a failed external call ends in a result
\* whose text is "Error: <message>" (so for search_template too), which the
\* transport can send, after which the server takes the next tool call.
C2_NeverRaises ==
    /\ ~escaped
    /\ pc = "returned" => (result.returned /\ ENABLED Respond)
    /\ pc = "idle" => ENABLED ToolCall
    /\ ExternalCallFailed =>
         result.content = << <<"Error: ", responses[Len(responses)].message>> >>

\* C2, witness: a search whose backend call threw, answered with "Error: ...".
C2_Witness ==
    /\ ExternalCallFailed
    /\ InSearch
    /\ Head(result.content[1]) = "Error: "
    /\ ENABLED Respond

(***************************************************************************)
(* Properties of the configuration and of server construction.            *)
(***************************************************************************)
\* ConfigSchema.parse has run on a configuration whose url is valid.
ParsedWithValidUrl == bootPc # "start" /\ UrlValid(config.url)

\* C3: with a valid url, validation fails exactly when one of username and
\* password is set (non-empty) and the other is not, whatever the apiKey.
C3_AuthPairing ==
    ParsedWithValidUrl =>
        ((bootPc = "failed") <=> (Truthy(config.username) # Truthy(config.password)))

\* C3, witness: a password without a username, and an apiKey, is refused.
C3_Witness ==
    /\ ParsedWithValidUrl
    /\ bootPc = "failed"
    /\ Truthy(config.password)
    /\ ~Truthy(config.username)
    /\ Truthy(config.apiKey)

ServerBuilt == bootPc \in {"built", "serving"}

\* C9 (as amended): when the validated configuration names an inference
\* endpoint, the prober issues exactly one request, and none when the
\* inference id is empty; the prober returns a boolean without throwing
\* whatever the request comes to, and once it has returned, true or false,
\* the server is built with all three tools registered.
C9_ProbeOnce ==
    /\ ~probeThrew
    /\ bootPc = "probing" => (probeRequests = 1 /\ ~isReady.returned)
    /\ ServerBuilt =>
         /\ tools = ToolNames
         /\ probeRequests = (IF Truthy(config.inferenceId) THEN 1 ELSE 0)
         /\ isReady.returned <=> Truthy(config.inferenceId)
    /\ isReady.returned => ServerBuilt
    /\ bootPc \in {"start", "failed"} => (probeRequests = 0 /\ tools = {})

\* C9, witness: the probe failed and the server was built all the same.
C9_Witness ==
    /\ bootPc = "built"
    /\ isReady = [returned |-> TRUE, value |-> FALSE]
    /\ probeRequests = 1
    /\ tools = ToolNames

\* C9 as the claim states it: every construction issues exactly one request
\* against the inference endpoint, and ends with the three tools registered.
C9_Original ==
    /\ ~probeThrew
    /\ ServerBuilt => (probeRequests = 1 /\ isReady.returned /\ tools = ToolNames)

(***************************************************************************)
(* The call chain of one geocode_location invocation.                      *)
(***************************************************************************)
GeoRunning == InGeocode /\ pc \in {"geo_primary", "geo_texas", "geo_comma"}
GeoReturned == InGeocode /\ pc = "returned"

\* C11: one geocode_location invocation issues no request without an API
\* key, exactly one when the primary response has a status other than "OK"
\* or holds a result, and never more than three; while it runs exactly one
\* request is outstanding and its settling is the next step, so the chain
\* ends after at most three responses, and it ends with exactly one result
\* (one returned value of one text fragment, none before the end).
C11_BoundedChain ==
    InGeocode =>
        /\ Len(requests) <= 3
        /\ ~Truthy(googleMapsApiKey) =>
             (requests = <<>> /\ responses = <<>> /\ pc = "returned")
        /\ (Len(responses) >= 1
              /\ ~responses[1].threw
              /\ (responses[1].status # "OK" \/ responses[1].first.present)) =>
             (Len(requests) = 1 /\ pc = "returned")
        /\ GeoRunning =>
             /\ Len(requests) = Len(responses) + 1
             /\ result = NoResult
             /\ ENABLED (GeocodePrimarySettles \/ GeocodeTexasSettles \/ GeocodeCommaSettles)
        /\ GeoReturned =>
             /\ Len(requests) = Len(responses)
             /\ result.returned /\ ~escaped
             /\ Len(result.content) = 1
        /\ pc \in {"geo_primary", "geo_texas", "geo_comma", "returned"}

\* C11, witness: the longest chain, three requests and three empty
\* responses, ended by the one not-found result.
C11_Witness ==
    /\ GeoReturned
    /\ Len(requests) = 3
    /\ Len(responses) = 3
    /\ result = NotFoundResult(call.location)

====
